---- MODULE Spec2Model ----
(***************************************************************************)
(* Model of analysis/bibliography.py: the command line parser, the six     *)
(* pipeline stages run by main(), and the try/except structure around the  *)
(* litstudy / matplotlib calls.  Every library call is an environment      *)
(* input: it returns a value drawn from a small set, or raises.            *)
(***************************************************************************)
EXTENDS Integers, Sequences, FiniteSets, TLC

VARIABLES argv, args, pc, exit_code, escaped, started, docs, last

vars == <<argv, args, pc, exit_code, escaped, started, docs, last>>

----------------------------------------------------------------------------
(* Bounds *)

NumDocs == 2
MaxArgs == 4

Docs == 1..NumDocs

----------------------------------------------------------------------------
(* Configuration constants (bibliography.py 12-19) *)

NUM_TOPICS == 10
DEFAULT_TOPIC == "travel"

\* threshold = 0.2; topic weights are counted in tenths
threshold == 2
Weights == {1, 2, 3}

----------------------------------------------------------------------------
(* parse_arguments *)

None == "None"

ValueFlags == {"--data-dir", "--output-dir", "--topic-keyword"}
Flags == ValueFlags \cup {"--save-plots"}
Values == {"x", "y"}
Tokens == Flags \cup Values

Dest(flag) ==
    CASE flag = "--data-dir" -> "data_dir"
      [] flag = "--output-dir" -> "output_dir"
      [] flag = "--topic-keyword" -> "topic_keyword"

Defaults_wrong_output ==
    [data_dir |-> None, save_plots |-> FALSE, output_dir |-> "output",
     topic_keyword |-> DEFAULT_TOPIC, ok |-> TRUE]

Defaults ==
    [data_dir |-> None, save_plots |-> FALSE, output_dir |-> "results",
     topic_keyword |-> DEFAULT_TOPIC, ok |-> TRUE]

RECURSIVE ParseFrom(_, _, _)
ParseFrom(a, i, ns) ==
    IF i > Len(a) THEN ns
    ELSE IF a[i] = "--save-plots"
         THEN ParseFrom(a, i + 1, [ns EXCEPT !.save_plots = TRUE])
    ELSE IF a[i] \in ValueFlags
         THEN IF i + 1 > Len(a) \/ a[i + 1] \in Flags
              THEN [ns EXCEPT !.ok = FALSE]
              ELSE ParseFrom(a, i + 2, [ns EXCEPT ![Dest(a[i])] = a[i + 1]])
    ELSE [ns EXCEPT !.ok = FALSE]

parse_arguments(a) == ParseFrom(a, 1, Defaults)

RECURSIVE SeqsUpTo(_, _)
SeqsUpTo(S, n) ==
    IF n = 0 THEN {<<>>}
    ELSE LET shorter == SeqsUpTo(S, n - 1)
         IN shorter \cup {Append(s, t) : s \in shorter, t \in S}

Argvs == SeqsUpTo(Tokens, MaxArgs)

MainArgvs ==
    { <<>>, <<"--save-plots">>, <<"--topic-keyword", "x">>,
      <<"--save-plots", "--output-dir", "y">>, <<"--data-dir">> }

NoArgs == [data_dir |-> None, save_plots |-> FALSE, output_dir |-> None,
           topic_keyword |-> None, ok |-> FALSE]

----------------------------------------------------------------------------
(* Document collections *)

EmptyTag == [d \in {} |-> FALSE]

Collection(S) == [members |-> S, tagged |-> FALSE, is_relevant_topic |-> EmptyTag]

NoDocs == Collection({})

\* a | b
Union(a, b) == Collection(a.members \cup b.members)

\* a - b
Difference(a, b) == Collection(a.members \ b.members)

----------------------------------------------------------------------------
(* State *)

Stages == <<"load_data", "filter_data", "refine_with_scopus",
            "analyze_stats_plots", "analyze_network", "analyze_topics">>

InitCommon ==
    /\ args = NoArgs
    /\ pc = "main"
    /\ exit_code = -1
    /\ escaped = ""
    /\ started = <<>>
    /\ docs = NoDocs
    /\ last = [stage |-> "none"]

Init == argv \in MainArgvs /\ InitCommon

InitArgs == argv \in Argvs /\ InitCommon

\* bibliography.parse_arguments(list) called on its own, as the test does
ParseArgumentsCall ==
    /\ pc = "main"
    /\ LET ns == parse_arguments(argv)
       IN IF ns.ok
          THEN /\ args' = ns
               /\ pc' = "parsed"
               /\ exit_code' = exit_code
          ELSE /\ args' = args
               /\ pc' = "exit"
               /\ exit_code' = 2
    /\ UNCHANGED <<argv, escaped, started, docs, last>>

NextArgs == ParseArgumentsCall

SpecArgs == InitArgs /\ [][NextArgs]_vars

----------------------------------------------------------------------------
(* save_or_show_plot *)

\* what the plotting backend does on one plot: nothing wrong, the plot
\* function raises, savefig raises, close raises, or show raises
PlotEnv == {"ok", "func", "savefig", "close", "show"}

\* TRUE iff an exception leaves save_or_show_plot
save_or_show_plot(save, e) ==
    IF save
    THEN e = "close"       \* savefig is caught; close() runs in the finally
    ELSE e = "show"

\* one "plot function, then save_or_show_plot" pair
PlotRaises(save, e) == e = "func" \/ save_or_show_plot(save, e)

----------------------------------------------------------------------------
(* _load_single_source and load_data *)

Sources == <<"ieee.csv", "springer.csv", "zotero.bib">>

\* what a file of the data directory is for its loader
FileStates ==
    {[kind |-> k, members |-> {}] : k \in {"absent", "raises", "none"}}
    \cup {[kind |-> "docs", members |-> S] : S \in SUBSET Docs}

\* Optional[DocumentSet]: <<>> is None, <<c>> is the collection c
_load_single_source_keeps_empty(f) ==
    IF f.kind = "docs" THEN <<Collection(f.members)>> ELSE <<>>

_load_single_source(f) ==
    IF f.kind = "absent" THEN <<>>
    ELSE IF f.kind = "raises" THEN <<>>
    ELSE IF f.kind = "none" \/ Cardinality(f.members) = 0 THEN <<>>
    ELSE <<Collection(f.members)>>

\* docs_list after the three "if d := ...: docs_list.append(d)"
DocsList(files) ==
    _load_single_source(files[1]) \o _load_single_source(files[2])
        \o _load_single_source(files[3])

MergeAll_keeps_last(docs_list) == docs_list[Len(docs_list)]

RECURSIVE MergeFrom(_, _, _)
MergeFrom(docs_list, i, docs_all) ==
    IF i > Len(docs_list) THEN docs_all
    ELSE MergeFrom(docs_list, i + 1, Union(docs_all, docs_list[i]))

\* docs_all = docs_list[0]; for d in docs_list[1:]: docs_all = docs_all | d
MergeAll(docs_list) == MergeFrom(docs_list, 2, docs_list[1])

\* where the merge raises: nowhere, in "docs_all | d", or in the len() of
\* the log line that follows the loop
MergeFaults == {"none", "union", "len"}

MergeRaises(docs_list, fault) ==
    \/ fault = "union" /\ Len(docs_list) > 1
    \/ fault = "len"

load_data ==
    /\ pc = "load_data"
    /\ \E files \in [1..3 -> FileStates], fault \in MergeFaults :
         LET docs_list == DocsList(files)
         IN /\ started' = Append(started, "load_data")
            /\ last' = [stage |-> "load_data", files |-> files]
            /\ IF docs_list = <<>>
               THEN \* sys.exit(1)
                    /\ pc' = "exit"
                    /\ exit_code' = 1
                    /\ UNCHANGED <<docs, escaped>>
               ELSE IF MergeRaises(docs_list, fault)
               THEN \* the merge is outside every try block
                    /\ pc' = "exit"
                    /\ exit_code' = 1
                    /\ escaped' = "load_data"
                    /\ UNCHANGED docs
               ELSE /\ docs' = MergeAll(docs_list)
                    /\ pc' = "filter_data"
                    /\ UNCHANGED <<exit_code, escaped>>
    /\ UNCHANGED <<argv, args>>

----------------------------------------------------------------------------
(* filter_data *)

\* what exclude.ris is for load_ris_file, and where the rest of the try
\* block raises: nowhere, in "docs - docs_exclude", or in the len() calls of
\* the log line after the subtraction
ExcludeStates ==
    {[kind |-> f.kind, members |-> f.members, fault |-> b] :
        f \in FileStates, b \in {"none", "subtract", "log"}}

FilterResult_empty_on_error(d, e) ==
    IF e.kind = "absent" THEN d
    ELSE IF e.kind = "raises" THEN NoDocs
    ELSE IF e.kind = "none" \/ Cardinality(e.members) = 0 THEN d
    ELSE IF e.fault = "subtract" THEN NoDocs
    ELSE Difference(d, Collection(e.members))

FilterResult(d, e) ==
    IF e.kind = "absent" THEN d                  \* not exclude_path.exists()
    ELSE IF e.kind = "raises" THEN d             \* load_ris_file raises
    ELSE IF e.kind = "none" \/ Cardinality(e.members) = 0 THEN d
    ELSE IF e.fault = "subtract" THEN d          \* docs - docs_exclude raises
    ELSE Difference(d, Collection(e.members))

filter_data ==
    /\ pc = "filter_data"
    /\ \E e \in ExcludeStates :
         /\ docs' = FilterResult(docs, e)
         /\ last' = [stage |-> "filter_data", in |-> docs, exclude |-> e]
    /\ started' = Append(started, "filter_data")
    /\ pc' = "refine_with_scopus"
    /\ UNCHANGED <<argv, args, exit_code, escaped>>

----------------------------------------------------------------------------
(* refine_with_scopus *)

\* a null entry of docs_scopus
NullDoc == 0

\* where the refinement raises: nowhere, in refine_scopus, in filter_docs,
\* or in the len() calls of the log line
RefineFaults == {"none", "refine_scopus", "filter_docs", "log"}

RefineResult_keeps_found(d, found, fault) ==
    IF fault = "refine_scopus" THEN d
    ELSE Collection({x \in found : x # NullDoc})

RefineResult(d, found, fault) ==
    IF fault # "none" THEN d
    ELSE Collection({x \in found : x # NullDoc})

refine_with_scopus ==
    /\ pc = "refine_with_scopus"
    /\ \E found \in SUBSET (docs.members \cup {NullDoc}), fault \in RefineFaults :
         /\ docs' = RefineResult(docs, found, fault)
         /\ last' = [stage |-> "refine_with_scopus", in |-> docs,
                     found |-> found, fault |-> fault]
    /\ started' = Append(started, "refine_with_scopus")
    /\ pc' = "analyze_stats_plots"
    /\ UNCHANGED <<argv, args, exit_code, escaped>>

----------------------------------------------------------------------------
(* analyze_stats_plots *)

plot_ops == <<"year_histogram.png", "affiliation_histogram.png",
              "author_histogram.png", "language_histogram.png",
              "country_histogram.png", "source_histogram.png">>

RECURSIVE RunPlotOpsFrom_stops(_, _, _, _)
RunPlotOpsFrom_stops(i, save, env, acc) ==
    IF i > Len(plot_ops) THEN acc
    ELSE IF PlotRaises(save, env[i])
    THEN [attempted |-> Append(acc.attempted, plot_ops[i]),
          raised |-> acc.raised \cup {plot_ops[i]}]
    ELSE RunPlotOpsFrom_stops(i + 1, save, env,
            [attempted |-> Append(acc.attempted, plot_ops[i]),
             raised |-> acc.raised])

RunPlotOps_stops(save, env) ==
    RunPlotOpsFrom_stops(1, save, env, [attempted |-> <<>>, raised |-> {}])

RECURSIVE RunPlotOpsFrom(_, _, _, _)
RunPlotOpsFrom(i, save, env, acc) ==
    IF i > Len(plot_ops) THEN acc
    ELSE RunPlotOpsFrom(i + 1, save, env,
            [attempted |-> Append(acc.attempted, plot_ops[i]),
             raised |-> IF PlotRaises(save, env[i])
                        THEN acc.raised \cup {plot_ops[i]}
                        ELSE acc.raised])

\* for func, kwargs, fname in plot_ops: try: ... except Exception: log
RunPlotOps(save, env) ==
    RunPlotOpsFrom(1, save, env, [attempted |-> <<>>, raised |-> {}])

\* the backend's behaviour on each of the six plots: the plots of one set
\* fail, all in the same way.  Each plot is caught on its own, so this gives
\* every set of failed plots in both output modes.
PlotEnvs ==
    {[i \in 1..Len(plot_ops) |-> IF i \in faulty THEN how ELSE "ok"] :
        faulty \in SUBSET (1..Len(plot_ops)), how \in PlotEnv \ {"ok"}}

analyze_stats_plots ==
    /\ pc = "analyze_stats_plots"
    /\ \E env \in PlotEnvs :
         LET r == RunPlotOps(args.save_plots, env)
         IN last' = [stage |-> "analyze_stats_plots",
                     attempted |-> r.attempted, raised |-> r.raised]
    /\ started' = Append(started, "analyze_stats_plots")
    /\ pc' = "analyze_network"
    /\ UNCHANGED <<argv, args, exit_code, escaped, docs>>

----------------------------------------------------------------------------
(* analyze_network *)

NetworkFaults == {"none", "build_cocitation_network", "plot_network",
                  "savefig", "close", "show"}

NetworkRaises(save, fault) ==
    \/ fault \in {"build_cocitation_network", "plot_network"}
    \/ save_or_show_plot(save, fault)

analyze_network ==
    /\ pc = "analyze_network"
    /\ \E fault \in NetworkFaults :
         last' = [stage |-> "analyze_network",
                  raised |-> NetworkRaises(args.save_plots, fault)]
    /\ started' = Append(started, "analyze_network")
    /\ pc' = "analyze_topics"
    /\ UNCHANGED <<argv, args, exit_code, escaped, docs>>

----------------------------------------------------------------------------
(* analyze_topics *)

\* the calls inside the try block, in program order
TopicSteps == <<"build_corpus",
                "plot_word_distribution", "save word_distribution.png",
                "train_nmf_model",
                "plot_topic_clouds", "save topic_clouds.png",
                "plot_embedding", "save topic_embedding.png",
                "best_topic_for_token", "doc2topic", "add_property",
                "plot_year_histogram", "save year_histogram_by_relevance.png",
                "plot_source_histogram", "save source_histogram_by_relevance.png">>

StepOf(name) == CHOOSE i \in 1..Len(TopicSteps) : TopicSteps[i] = name

SaveSteps == {StepOf("save word_distribution.png"), StepOf("save topic_clouds.png"),
              StepOf("save topic_embedding.png"),
              StepOf("save year_histogram_by_relevance.png"),
              StepOf("save source_histogram_by_relevance.png")}

\* best_topic_for_token returned None
NoTopic == -1

\* what best_topic_for_token returns for the keyword
TokenTopics == {NoTopic, 0, 1, NUM_TOPICS - 1}

\* doc2topic: one row per document, NUM_TOPICS columns
DocTopicMatrices(members) ==
    {[d \in members |-> [t \in 0..(NUM_TOPICS - 1) |-> IF t = 0 THEN c0[d] ELSE c1[d]]] :
        c0 \in [members -> Weights], c1 \in [members -> Weights]}

\* the one call of the block that raises (step 0: none does), and for a
\* save_or_show_plot step the call inside it that does.  The block stops at
\* the first exception that reaches it, so one fault gives every outcome.
TopicFaults ==
    {[step |-> k, how |-> "raises"] : k \in (0..Len(TopicSteps)) \ SaveSteps}
    \cup {[step |-> k, how |-> h] : k \in SaveSteps, h \in {"savefig", "close", "show"}}

\* the step whose exception reaches the except clause, 0 if none does
RaisedAt(save, fault) ==
    IF fault.step = 0 THEN 0
    ELSE IF fault.step \in SaveSteps
         THEN IF save_or_show_plot(save, fault.how) THEN fault.step ELSE 0
    ELSE fault.step

ResolveTopic_falls_back_to_one(lookup) == IF lookup = NoTopic THEN 1 ELSE lookup

\* if topic_id is None: topic_id = 0
ResolveTopic(lookup) == IF lookup = NoTopic THEN 0 ELSE lookup

IsTopic_inclusive(w) == w >= threshold

\* topic_model.doc2topic[:, topic_id] > threshold
IsTopic(w) == w > threshold

add_property(d, is_topic) ==
    [members |-> d.members, tagged |-> TRUE, is_relevant_topic |-> is_topic]

\* the whole function: the value of the local "docs" at whichever return runs
TopicsResult(d, save, lookup, doc2topic, fault) ==
    LET r == RaisedAt(save, fault)
        passed(name) == r = 0 \/ r > StepOf(name)
        topic_id == ResolveTopic(lookup)
        is_topic == [x \in d.members |-> IsTopic(doc2topic[x][topic_id])]
    IN [docs |-> IF passed("add_property") THEN add_property(d, is_topic) ELSE d,
        topic_id |-> IF passed("best_topic_for_token") THEN topic_id ELSE NoTopic,
        raised_at |-> r]

analyze_topics ==
    /\ pc = "analyze_topics"
    /\ \E lookup \in TokenTopics, doc2topic \in DocTopicMatrices(docs.members),
          fault \in TopicFaults :
         LET r == TopicsResult(docs, args.save_plots, lookup, doc2topic, fault)
         IN /\ docs' = r.docs
            /\ last' = [stage |-> "analyze_topics", in |-> docs, lookup |-> lookup,
                        doc2topic |-> doc2topic, topic_id |-> r.topic_id,
                        raised_at |-> r.raised_at]
    /\ started' = Append(started, "analyze_topics")
    /\ pc' = "done"
    /\ exit_code' = 0
    /\ UNCHANGED <<argv, args, escaped>>

----------------------------------------------------------------------------
(* main *)

\* parse_arguments(), setup_plotting_style(), output_dir.mkdir()
main ==
    /\ pc = "main"
    /\ \E setup_raises \in BOOLEAN :
         LET ns == parse_arguments(argv)
         IN IF ~ns.ok
            THEN \* argparse reports the error and exits with status 2
                 /\ pc' = "exit"
                 /\ exit_code' = 2
                 /\ UNCHANGED <<args, escaped>>
            ELSE IF setup_raises
            THEN /\ args' = ns
                 /\ pc' = "exit"
                 /\ exit_code' = 1
                 /\ escaped' = "main"
            ELSE /\ args' = ns
                 /\ pc' = "load_data"
                 /\ UNCHANGED <<exit_code, escaped>>
    /\ UNCHANGED <<argv, started, docs, last>>

Next ==
    \/ main
    \/ load_data
    \/ filter_data
    \/ refine_with_scopus
    \/ analyze_stats_plots
    \/ analyze_network
    \/ analyze_topics

Spec == Init /\ [][Next]_vars

----------------------------------------------------------------------------
(* Properties *)

StageSet == {Stages[i] : i \in 1..Len(Stages)}

\* a source yields documents: its loader returned a non-empty collection
Yields(f) == f.kind = "docs" /\ f.members # {}

Loaded(files) == {i \in 1..3 : Yields(files[i])}

SizeOf(f) == IF Yields(f) THEN Cardinality(f.members) ELSE 0

SumOfLoaded(files) == SizeOf(files[1]) + SizeOf(files[2]) + SizeOf(files[3])

Overlap(files) ==
    \E i \in Loaded(files), j \in Loaded(files) :
        i # j /\ files[i].members \cap files[j].members # {}

\* C1: whenever an exception reaches the except clause of analyze_topics, the
\* stage returns the collection it was given, without is_relevant_topic.
C1_FailureReturnsInput ==
    (last.stage = "analyze_topics" /\ last.raised_at # 0)
        => (docs = last.in /\ ~docs.tagged)

\* C2: no exception escapes a pipeline stage, and a load in which at least
\* one source yields documents always hands over to the next stage.
C2_NoExceptionEscapesStage ==
    /\ escaped \notin StageSet
    /\ (last.stage = "load_data" /\ Loaded(last.files) # {}) => pc = "filter_data"

\* C3: when no source yields documents the process has exited with code 1,
\* load_data is the only stage ever started and nothing can run after it.
C3_NoSourceExits ==
    (last.stage = "load_data" /\ Loaded(last.files) = {})
        => /\ pc = "exit"
           /\ exit_code = 1
           /\ started = <<"load_data">>
           /\ ~ENABLED Next

C3_Witness ==
    /\ pc = "exit"
    /\ exit_code = 1
    /\ last.stage = "load_data"
    /\ last.files[1].kind = "absent"
    /\ last.files[2].kind = "raises"
    /\ last.files[3].kind = "docs"

\* C4: when at least one source yields documents (and the merge itself does
\* not raise), load_data returns the union of the loaded collections: its size
\* is the sum of the loaded sizes when they are disjoint, smaller otherwise.
C4_LoadIsUnion ==
    (last.stage = "load_data" /\ Loaded(last.files) # {} /\ escaped = "")
        => /\ pc = "filter_data"
           /\ docs.members = UNION {last.files[i].members : i \in Loaded(last.files)}
           /\ ~docs.tagged
           /\ ~Overlap(last.files)
                 => Cardinality(docs.members) = SumOfLoaded(last.files)
           /\ Overlap(last.files)
                 => Cardinality(docs.members) < SumOfLoaded(last.files)

C4_Witness ==
    /\ pc = "filter_data"
    /\ last.stage = "load_data"
    /\ last.files[1].kind = "raises"
    /\ last.files[2].members = Docs
    /\ last.files[3].members = {1}
    /\ docs.members = Docs

\* C5: filter_data returns the input minus the exclusion list when the list
\* is present, loads, is non-empty and the subtraction succeeds; otherwise it
\* returns the input unchanged.
C5_FilterIsDifference ==
    last.stage = "filter_data"
        => IF Yields(last.exclude) /\ last.exclude.fault # "subtract"
           THEN docs.members = last.in.members \ last.exclude.members
           ELSE docs = last.in

C5_Witness ==
    /\ last.stage = "filter_data"
    /\ Yields(last.exclude)
    /\ last.exclude.fault = "none"
    /\ last.in.members \cap last.exclude.members # {}
    /\ docs.members # {}
    /\ docs.members # last.in.members

\* C6: when any step of the refinement raises, refine_with_scopus returns the
\* collection it was given and the pipeline goes on to the statistics plots;
\* on success it returns the found set without its null entries.
C6_RefineDegrades ==
    last.stage = "refine_with_scopus"
        => /\ last.fault # "none" => docs = last.in
           /\ last.fault = "none" => docs.members = last.found \ {NullDoc}
           /\ pc = "analyze_stats_plots"
           /\ escaped = ""
           /\ exit_code = -1
           /\ ENABLED analyze_stats_plots

C6_Witness ==
    /\ last.stage = "refine_with_scopus"
    /\ last.fault = "filter_docs"
    /\ last.in.members = Docs
    /\ last.found = {NullDoc, 1}
    /\ docs.members = Docs

\* C7: analyze_stats_plots attempts the six plots once each, in the order
\* year, affiliation, author, language, country, source, whichever of them
\* fail, and then returns to main.
C7_AllPlotsAttempted ==
    last.stage = "analyze_stats_plots"
        => /\ last.attempted = <<"year_histogram.png", "affiliation_histogram.png",
                                 "author_histogram.png", "language_histogram.png",
                                 "country_histogram.png", "source_histogram.png">>
           /\ pc = "analyze_network"
           /\ escaped = ""

C7_Witness ==
    /\ last.stage = "analyze_stats_plots"
    /\ last.raised = {"year_histogram.png", "language_histogram.png"}
    /\ Len(last.attempted) = 6

\* C8: when the keyword lookup yields no topic and the stage reaches the
\* tagging, the topic index is 0 and the documents are tagged against topic 0.
C8_FallbackTopicZero ==
    (/\ last.stage = "analyze_topics"
     /\ last.lookup = NoTopic
     /\ (last.raised_at = 0 \/ last.raised_at > StepOf("add_property")))
        => /\ last.topic_id = 0
           /\ docs.tagged
           /\ \A d \in docs.members :
                docs.is_relevant_topic[d] <=> last.doc2topic[d][0] > threshold

C8_Witness ==
    /\ last.stage = "analyze_topics"
    /\ last.lookup = NoTopic
    /\ last.raised_at = 0
    /\ pc = "done"
    /\ docs.tagged
    /\ \E d \in docs.members :
         /\ last.doc2topic[d][0] > threshold
         /\ last.doc2topic[d][1] <= threshold
         /\ docs.is_relevant_topic[d]

\* C9: a tagged collection carries a tag for every document, true exactly
\* when the document's weight for the resolved topic is above 0.2; a run of
\* the stage in which nothing raises tags the collection.
C9_StrictThreshold ==
    last.stage = "analyze_topics"
        => /\ last.raised_at = 0 => docs.tagged
           /\ docs.tagged
                => /\ docs.members = last.in.members
                   /\ DOMAIN docs.is_relevant_topic = docs.members
                   /\ \A d \in docs.members :
                        docs.is_relevant_topic[d]
                            <=> last.doc2topic[d][last.topic_id] > threshold

C9_Witness ==
    /\ last.stage = "analyze_topics"
    /\ docs.tagged
    /\ \E d \in docs.members :
         last.doc2topic[d][last.topic_id] = threshold /\ ~docs.is_relevant_topic[d]
    /\ \E d \in docs.members :
         last.doc2topic[d][last.topic_id] > threshold /\ docs.is_relevant_topic[d]

Supplied(flag) == \E i \in 1..Len(argv) : argv[i] = flag

LastValue(flag) ==
    LET i == CHOOSE k \in 1..Len(argv) :
                 argv[k] = flag /\ \A m \in (k + 1)..Len(argv) : argv[m] # flag
    IN argv[i + 1]

\* C10: an empty argument list parses to data_dir None, save_plots False,
\* output_dir "results", topic_keyword "travel"; a supplied flag sets its
\* own field and every field whose flag is not supplied keeps its default.
C10_ArgumentDefaults ==
    /\ (argv = <<>> /\ pc # "main")
          => /\ pc = "parsed"
             /\ args = [data_dir |-> None, save_plots |-> FALSE,
                        output_dir |-> "results", topic_keyword |-> "travel",
                        ok |-> TRUE]
    /\ pc = "parsed"
          => /\ args.save_plots = Supplied("--save-plots")
             /\ args.data_dir = IF Supplied("--data-dir")
                                THEN LastValue("--data-dir") ELSE None
             /\ args.output_dir = IF Supplied("--output-dir")
                                  THEN LastValue("--output-dir") ELSE "results"
             /\ args.topic_keyword = IF Supplied("--topic-keyword")
                                     THEN LastValue("--topic-keyword") ELSE "travel"

C10_Witness ==
    /\ pc = "parsed"
    /\ argv = <<"--topic-keyword", "x", "--save-plots">>
    /\ args.topic_keyword = "x"
    /\ args.save_plots
    /\ args.output_dir = "results"
    /\ args.data_dir = None

====
